---- MODULE Spec2Model ----
(***************************************************************************)
(* A model of react-nimble-store: the store created by createStore         *)
(* (src/src/lib/types.ts, lines 198-355), its Provider instances, the      *)
(* subscriber set, the state setter with its optional middleware, and the  *)
(* useStore hook on top of it.                                             *)
(*                                                                         *)
(* JavaScript runs one call at a time.  The calls that are in progress     *)
(* are the frames of `stack`; the code of the store runs inside the        *)
(* steps, and the steps stop where the store hands control to code it was  *)
(* given: a middleware or a subscriber callback.                           *)
(***************************************************************************)
EXTENDS Integers, Sequences, FiniteSets, TLC

(***************************************************************************)
(* Bounds of the model.                                                    *)
(***************************************************************************)
NumInst == 2        \* mounted Provider elements of the one store
NumCb == 2          \* distinct callback functions handed to subscribe
MaxVal == 1         \* field values are 0..MaxVal
MaxSetData == 4     \* entries of the Set's list while a forEach is running
MaxFresh == 1       \* unsubscribe functions of one callback not yet called
MaxScript == 2      \* subscribe and unsubscribe calls one callback run makes
NumCons == 2        \* useStore calls (consumers)
MaxStores == 3      \* createStore calls of the registry variant
MaxCalls == 4       \* registerContext calls (Provider renders)
MaxPath == 2        \* Providers that enclose one component
MaxLen == 2         \* elements of an array given to shallowEqual
MaxObjects == 2     \* arrays, and key-maps, that are distinct objects
MaxDepth == 3       \* setState calls in progress, one inside the other

Inst == 1..NumInst
CbIds == 1..NumCb
Vals == 0..MaxVal
Cons == 1..NumCons

(***************************************************************************)
(* JavaScript values.  An object has an identity (id) besides its fields;  *)
(* === on objects compares the identities.                                 *)
(***************************************************************************)
NoFields == [k \in {} |-> 0]
Undefined == [t |-> "undefined"]
Null == [t |-> "null"]
Num(n) == [t |-> "number", v |-> n]
NaN == [t |-> "NaN"]
Obj(f, id) == [t |-> "object", f |-> f, id |-> id]
Fn(name) == [t |-> "function", name |-> name]
Arr(e, id) == [t |-> "array", e |-> e, id |-> id]

\* The property key of the n-th element of an array.
IndexKey(n) == CASE n = 1 -> "0" [] n = 2 -> "1" [] OTHER -> "2"

\* The typeof operator.
TypeOf(x) ==
  CASE x.t = "function" -> "function"
    [] x.t \in {"object", "array", "null"} -> "object"
    [] x.t = "NaN" -> "number"
    [] OTHER -> x.t

\* The own enumerable properties a spread ( ...x ) copies.
Props(x) ==
  CASE x.t = "object" -> x.f
    [] x.t = "array" ->
         [k \in {IndexKey(n) : n \in 1..Len(x.e)} |->
            x.e[CHOOSE n \in 1..Len(x.e) : IndexKey(n) = k]]
    [] OTHER -> NoFields

\* { ...a, ...b }: the fields of a, overwritten by those of b.
Spread(a, b) ==
  [k \in (DOMAIN Props(a)) \cup (DOMAIN Props(b)) |->
     IF k \in DOMAIN Props(b) THEN Props(b)[k] ELSE Props(a)[k]]

\* a === b
StrictEq(a, b) ==
  /\ a.t = b.t
  /\ CASE a.t = "number" -> a.v = b.v
       [] a.t \in {"object", "array"} -> a.id = b.id
       [] a.t = "function" -> a.name = b.name
       [] a.t = "NaN" -> FALSE
       [] OTHER -> TRUE

(***************************************************************************)
(* The updater functions the examples pass to setState:                    *)
(*   increment: (state) => ({ counter: state.counter + 1 })                *)
(*   decrement: (state) => ({ counter: state.counter - 1 })                *)
(* Their result is a fresh partial object (identity 0: it is not kept).    *)
(***************************************************************************)
FnNames == {"increment", "decrement"}

CallFn(name, state) ==
  CASE name = "increment" -> Obj([count |-> state.f.count + 1], 0)
    [] name = "decrement" -> Obj([count |-> state.f.count - 1], 0)

\* The updater keeps the counter within the values of the model.
FnInRange(name, state) ==
  /\ state.t = "object"
  /\ "count" \in DOMAIN state.f
  /\ CallFn(name, state).f.count \in Vals

\* The partial objects given to setState: { }, { count }, { step }, { count, step }.
Partials ==
  {NoFields} \cup {[count |-> c] : c \in Vals} \cup {[step |-> s] : s \in Vals}
    \cup {[count |-> c, step |-> s] : c \in Vals, s \in Vals}

\* The well-typed arguments of setState (StateSetterArg).
Inputs == {Obj(p, 0) : p \in Partials} \cup {Fn(n) : n \in FnNames}

(***************************************************************************)
(* The store's state.                                                      *)
(***************************************************************************)
VARIABLES
  middleware,     \* createStore's second argument
  stateRef,       \* stateRef.current of each Provider instance
  subscribers,    \* the Set of callbacks: its list of entries, in insertion order
  unsubs,         \* the unsubscribe functions subscribe has returned
  stack,          \* the calls in progress, innermost last
  hooks,          \* the useStore calls of the mounted components
  storeManager,   \* the singleton StoreManager: lastId and contextsMap
  stores,         \* the stores createStore (registry variant) has returned
  calls,          \* history: the registerContext calls, in order
  via,            \* history: the instances through which a callback is subscribed
  log,            \* history: what the setters did in the current setState call
  last            \* history: what the last step did

regVars == <<storeManager, stores, calls>>

vars ==
  <<middleware, stateRef, subscribers, unsubs, stack, hooks, regVars, via, log, last>>

Unmounted == [t |-> "unmounted"]
None == [op |-> "none"]

(***************************************************************************)
(* Callbacks.  A callback handed to subscribe is a function object; the    *)
(* Set holds it by identity.                                               *)
(***************************************************************************)
Plain(n) == [kind |-> "plain", n |-> n]
Empty == [kind |-> "empty"]
PlainCbs == {Plain(n) : n \in CbIds}

\* The listener the effect of useStore call c subscribes (types.ts 263-268): a
\* closure over the selectedState of the render the effect belongs to.
Listener(c, selectedState) ==
  [kind |-> "listener", c |-> c, selectedState |-> selectedState]

Range(s) == {s[i] : i \in 1..Len(s)}
Members(s) == Range(s) \ {Empty}

(***************************************************************************)
(* The Set of ECMAScript: a list of entries.  add appends a value that is  *)
(* not in the list; delete replaces the value's entry by an empty entry;   *)
(* forEach visits the list by index, reads the length again after each     *)
(* callback, and skips the empty entries.  Empty entries are dropped when  *)
(* no forEach is running (nothing can tell they were there).               *)
(***************************************************************************)
\* (an add that appends whether or not the value is in the list)
SetAdd_Always(s, cb) == Append(s, cb)

SetAdd(s, cb) == IF cb \in Range(s) THEN s ELSE Append(s, cb)

\* (a delete that empties the Set: subscribers.clear())
SetDelete_Clear(s, cb) == [i \in 1..Len(s) |-> Empty]

SetDelete(s, cb) == [i \in 1..Len(s) |-> IF s[i] = cb THEN Empty ELSE s[i]]

RECURSIVE Compact(_)
Compact(s) ==
  IF Len(s) = 0 THEN <<>>
  ELSE IF Head(s) = Empty THEN Compact(Tail(s))
  ELSE <<Head(s)>> \o Compact(Tail(s))

Idle == stack = <<>>

\* The list as a step leaves it: compacted unless a forEach is running.
Settle(s, stk) ==
  IF \E n \in 1..Len(stk) : stk[n].k = "forEach" THEN s ELSE Compact(s)

(***************************************************************************)
(* Object identities: a new object gets the least identity no live         *)
(* reference holds (0 is the identity of temporaries).                     *)
(***************************************************************************)
IdsOf(x) == IF x.t \in {"object", "array"} THEN {x.id} ELSE {}

\* The values the hooks of component c hold: the state of useStore's useState
\* (with its queued update), the selectionRef of useSubscribe.
HookHolds(c) ==
  IF ~hooks[c].mounted THEN <<[t |-> "undefined"], [t |-> "undefined"]>>
  ELSE IF hooks[c].hook = "useStore"
  THEN <<hooks[c].selectedState, hooks[c].pending>>
  ELSE <<hooks[c].selectionRef, hooks[c].pending>>

UsedIds ==
  UNION ({IdsOf(stateRef[i]) : i \in Inst}
     \cup {IdsOf(HookHolds(c)[n]) : c \in Cons, n \in 1..2}
     \cup {IdsOf(subscribers[n].selectedState) :
              n \in {m \in 1..Len(subscribers) : subscribers[m].kind = "listener"}})

NewId == CHOOSE n \in 1..(Cardinality(UsedIds) + 1) :
           /\ n \notin UsedIds
           /\ \A m \in 1..(n - 1) : m \in UsedIds

(***************************************************************************)
(* subscribe (types.ts 210-213):                                           *)
(*   subscribers.add(callback); return () => subscribers.delete(callback)  *)
(* The unsubscribe functions of one callback all do the same thing; the    *)
(* model keeps, for each callback, how many have not been called yet       *)
(* (fresh), whether one has been called (used), and whether the callback   *)
(* has been subscribed since the last such call (resub).  These operators  *)
(* work on the record [subscribers, unsubs, via, last], so that a callback *)
(* can make several of these calls in one run.                             *)
(***************************************************************************)
Store == [subscribers |-> subscribers, unsubs |-> unsubs, via |-> via,
          last |-> last]

subscribe(st, i, cb) ==
  [st EXCEPT !.subscribers = SetAdd(@, cb),
             !.unsubs[cb] = [fresh |-> @.fresh + 1, used |-> @.used,
                             resub |-> @.used],
             !.via[cb] = @ \cup {i},
             !.last = [op |-> "subscribe", cb |-> cb, inst |-> i]]

CanSubscribe(st, cb) ==
  /\ st.unsubs[cb].fresh < MaxFresh
  /\ (cb \in Range(st.subscribers) \/ Len(st.subscribers) < MaxSetData)

\* Calling an unsubscribe function of cb: one not called before, or (again) one
\* that has been called already.
unsubscribe(st, cb, again) ==
  LET after == SetDelete(st.subscribers, cb) IN
  [st EXCEPT !.subscribers = after,
             !.unsubs[cb] = [fresh |-> IF again THEN @.fresh ELSE @.fresh - 1,
                             used |-> TRUE, resub |-> FALSE],
             !.via[cb] = {},
             !.last = [op |-> "unsubscribe", cb |-> cb, again |-> again,
                       resub |-> st.unsubs[cb].resub,
                       before |-> Members(st.subscribers),
                       after |-> Members(after)]]

CanUnsubscribe(st, cb, again) ==
  IF again THEN st.unsubs[cb].used ELSE st.unsubs[cb].fresh > 0

(***************************************************************************)
(* What a subscriber callback does when it is called: it may call          *)
(* subscribe and unsubscribe functions it holds.                           *)
(***************************************************************************)
SubOp(cb, i) == [op |-> "subscribe", cb |-> cb, inst |-> i]
UnsubOp(cb, again) == [op |-> "unsubscribe", cb |-> cb, again |-> again]

Ops == {SubOp(cb, i) : cb \in PlainCbs, i \in Inst}
         \cup {UnsubOp(cb, a) : cb \in PlainCbs, a \in BOOLEAN}

RECURSIVE ScriptsUpTo(_)
ScriptsUpTo(n) ==
  IF n = 0 THEN {<<>>}
  ELSE LET shorter == ScriptsUpTo(n - 1) IN
       shorter \cup {Append(s, o) : s \in shorter, o \in Ops}

Scripts == ScriptsUpTo(MaxScript)

CanDo(st, o) ==
  IF o.op = "subscribe" THEN CanSubscribe(st, o.cb)
  ELSE CanUnsubscribe(st, o.cb, o.again)

Do(st, o) ==
  IF o.op = "subscribe" THEN subscribe(st, o.inst, o.cb)
  ELSE unsubscribe(st, o.cb, o.again)

RECURSIVE CanRun(_, _)
CanRun(st, ops) ==
  IF Len(ops) = 0 THEN TRUE
  ELSE IF CanDo(st, Head(ops)) THEN CanRun(Do(st, Head(ops)), Tail(ops))
  ELSE FALSE

RECURSIVE Run(_, _)
Run(st, ops) == IF Len(ops) = 0 THEN st ELSE Run(Do(st, Head(ops)), Tail(ops))

\* The store after the calls, written back.
Becomes(st, stk) ==
  /\ subscribers' = Settle(st.subscribers, stk)
  /\ unsubs' = st.unsubs
  /\ via' = st.via
  /\ last' = st.last

(***************************************************************************)
(* Provider (types.ts 205-244), first render of instance i:                *)
(*   const initialState = (props.value ?? stateBuilder)(setState, getState)*)
(*   const stateRef = useRef(initialState)                                 *)
(* The builder of the examples gives { count: 0, step: 1, setCount }; a    *)
(* value prop overrides step.  setCount is the instance's own setState     *)
(* behind a function and is the same in every state: it is left out.       *)
(***************************************************************************)
stateBuilder == [count |-> 0, step |-> 1]

ValueProps == {Undefined} \cup {Obj([count |-> 0, step |-> s], 0) : s \in Vals}

Mounted(i) == stateRef[i] # Unmounted

\* What a builder returns: a new object or array, or a primitive.
Built(value, id) ==
  IF value.t \in {"object", "array"} THEN [value EXCEPT !.id = id] ELSE value

\* (props.value ?? stateBuilder)(setState, getState) (types.ts 239)
initialStateOf(value, id) ==
  IF value = Undefined THEN Obj(stateBuilder, id) ELSE Built(value, id)

\* (a ref that takes the value of every render)
useRef_Reset(current, initialValue) == initialValue

\* useRef(initialValue) (types.ts 240): the ref of the instance, which takes
\* initialValue when the instance renders for the first time and keeps what
\* it holds afterwards.
useRef(current, initialValue) ==
  IF current = Unmounted THEN initialValue ELSE current

\* First render of Provider instance i (types.ts 205-244).
Provider(i, value) ==
  /\ Idle
  /\ ~Mounted(i)
  /\ stateRef' = [stateRef EXCEPT ![i] = useRef(@, initialStateOf(value, NewId))]
  /\ last' = [op |-> "mount", inst |-> i, value |-> value, prev |-> stateRef]
  /\ UNCHANGED <<regVars, middleware, subscribers, unsubs, stack, hooks, via, log>>

\* A later render of Provider instance i, with any value prop: the builder is
\* called again and useRef ignores what it returned.
ProviderAgain(i, value) ==
  /\ Idle
  /\ Mounted(i)
  /\ stateRef' = [stateRef EXCEPT ![i] = useRef(@, initialStateOf(value, NewId))]
  /\ last' = [op |-> "render", inst |-> i, value |-> value, prev |-> stateRef,
              subs |-> subscribers]
  /\ UNCHANGED <<regVars, middleware, subscribers, unsubs, stack, hooks, via, log>>

getState(i) == stateRef[i]

\* A component calls the subscribe function of instance i's context.
Subscribe(i, cb) ==
  /\ Idle
  /\ Mounted(i)
  /\ CanSubscribe(Store, cb)
  /\ Becomes(subscribe(Store, i, cb), stack)
  /\ UNCHANGED <<regVars, middleware, stateRef, stack, hooks, log>>

\* A component passes the same callback to subscribe two times and keeps both
\* unsubscribe functions.
SubscribeTwice(i, cb) ==
  /\ Idle
  /\ Mounted(i)
  /\ unsubs[cb].fresh = 0
  /\ CanSubscribe(Store, cb)
  /\ Becomes(subscribe(subscribe(Store, i, cb), i, cb), stack)
  /\ UNCHANGED <<regVars, middleware, stateRef, stack, hooks, log>>

\* A component calls an unsubscribe function.
Unsubscribe(cb, again) ==
  /\ Idle
  /\ CanUnsubscribe(Store, cb, again)
  /\ Becomes(unsubscribe(Store, cb, again), stack)
  /\ UNCHANGED <<regVars, middleware, stateRef, stack, hooks, log>>

(***************************************************************************)
(* useValidContext (types.ts 339-345), the first call of useStore,         *)
(* useSubscribe and useGetState (types.ts 254, 275, 302):                  *)
(*   const contextValue = useContext(Context);                             *)
(*   if (!contextValue) throw new Error(`${callerName} must be used ...`)  *)
(*   return contextValue;                                                  *)
(* A component is rendered under a mounted Provider instance of the store  *)
(* or under none (NoProvider); useContext gives the contextValue of the    *)
(* enclosing instance, or the default of createContext, undefined.         *)
(***************************************************************************)
NoProvider == 0

HookNames == {"useStore", "useSubscribe", "useGetState"}

useContext(i) ==
  IF i = NoProvider THEN Undefined ELSE [t |-> "contextValue", inst |-> i]

Error(callerName) ==
  [t |-> "error", message |-> <<callerName, " must be used within a Store.Provider">>]

\* (a check that names useStore whatever hook called it, as the useSelector of
\* hooks.ts 115 does)
useValidContext_NamesUseStore(callerName, i) ==
  IF TypeOf(useContext(i)) = "undefined"
  THEN [threw |-> TRUE, error |-> Error("useStore")]
  ELSE [threw |-> FALSE, value |-> useContext(i)]

useValidContext(callerName, i) ==
  IF TypeOf(useContext(i)) = "undefined"
  THEN [threw |-> TRUE, error |-> Error(callerName)]
  ELSE [threw |-> FALSE, value |-> useContext(i)]

\* A component rendered under instance i, or under no Provider, calls a hook of
\* the store: the hook's call of useValidContext.
CallHook(name, i) ==
  /\ Idle
  /\ i # NoProvider => Mounted(i)
  /\ last' = [op |-> "hook", hook |-> name, under |-> i,
              out |-> useValidContext(name, i)]
  /\ UNCHANGED <<regVars, middleware, stateRef, subscribers, unsubs, stack, hooks, via, log>>

(***************************************************************************)
(* useStore (types.ts 253-272).  A useStore call of a mounted component    *)
(* has the selector and predicate it is given, the state of its useState   *)
(* (selectedState, and the update setSelectedState has queued for the next *)
(* render, if any), and its effect, which is due after the first render    *)
(* and after every render that changed selectedState.                      *)
(***************************************************************************)
NotMounted == [mounted |-> FALSE]
NoUpdate == [t |-> "no update"]
NoEffect == [kind |-> "no effect"]

\* The selectors of the examples: state => state.count, state => state.step
\* (part_006 86-87) and _state => null (App.tsx 63).
SelectorNames == {"count", "step", "null"}

CallSelector(name, state) ==
  IF name = "null" THEN Null
  ELSE IF name \in DOMAIN Props(state) THEN Num(state.f[name])
  ELSE Undefined

\* useStoreSelector (types.ts 310-318):
\*   (state) => (selector ? selector(state) : state)
selectorFn(selector, state) ==
  IF selector = Undefined THEN state ELSE CallSelector(selector.name, state)

\* The predicate of the README: (prev, next) => prev % 2 === next % 2
CallPredicate(name, arg1, arg2) ==
  IF arg1.t = "number" /\ arg2.t = "number"
  THEN (arg1.v % 2) = (arg2.v % 2)
  ELSE FALSE

\* usePredicate (types.ts 324-332):
\*   (arg1, arg2) => (predicate ? predicate(arg1, arg2) : arg1 === arg2)
predicateFn(predicate, arg1, arg2) ==
  IF predicate = Undefined THEN StrictEq(arg1, arg2)
  ELSE CallPredicate(predicate.name, arg1, arg2)

\* The (selector, predicate) pairs given to useStore: each selector with the
\* default predicate.
HookArgs == {<<Fn(n), Undefined>> : n \in SelectorNames}

\* The state of the useState: the queued update if there is one.
Retained(c) ==
  IF hooks[c].pending = NoUpdate THEN hooks[c].selectedState ELSE hooks[c].pending

\* The listener of useStore call c that is subscribed, if any.
ListenersOf(c) ==
  {cb \in Members(subscribers) : cb.kind = "listener" /\ cb.c = c}

\* Nothing is in flight for useStore call c: its effect has run for the last
\* render, no update is queued, and what it returns is the selection of the
\* state of its Provider.
Settled(c) ==
  /\ hooks[c].mounted
  /\ hooks[c].hook = "useStore"
  /\ ~hooks[c].effectDue
  /\ hooks[c].pending = NoUpdate
  /\ ListenersOf(c) = {Listener(c, hooks[c].selectedState)}
  /\ StrictEq(hooks[c].selectedState,
              selectorFn(hooks[c].selector, stateRef[hooks[c].inst]))

\* First render of a component under Provider instance i (types.ts 254-260):
\*   const [selectedState, setSelectedState] = useState(() => selectorFn(getState()))
useStore(c, i, selector, predicate) ==
  /\ Idle
  /\ ~hooks[c].mounted
  /\ Mounted(i)
  /\ hooks' = [hooks EXCEPT ![c] =
       [mounted |-> TRUE, hook |-> "useStore", inst |-> i,
        selector |-> selector, predicate |-> predicate,
        selectedState |-> selectorFn(selector, stateRef[i]),
        pending |-> NoUpdate, effectDue |-> TRUE, closure |-> NoEffect]]
  /\ last' = [op |-> "react"]
  /\ UNCHANGED <<regVars, middleware, stateRef, subscribers, unsubs, stack, via, log>>

\* The component renders again because setSelectedState queued an update:
\* useState returns the queued value; the effect is due again if
\* selectedState, one of its dependencies (types.ts 269), changed.
Render(c) ==
  /\ Idle
  /\ hooks[c].mounted
  /\ hooks[c].pending # NoUpdate
  /\ hooks' = [hooks EXCEPT ![c].selectedState = hooks[c].pending,
                            ![c].pending = NoUpdate,
                            ![c].effectDue =
                               @ \/ ~StrictEq(hooks[c].pending, hooks[c].selectedState)]
  /\ last' = [op |-> "react"]
  /\ UNCHANGED <<regVars, middleware, stateRef, subscribers, unsubs, stack, via, log>>

\* (an effect without a cleanup)
Cleanup_None(c, s) == s

\* The cleanup of the effect of useStore call c (types.ts 263, 210-213): the
\* function subscribe returned to the last run of the effect, which deletes
\* the listener that run subscribed.
Cleanup(c, s) ==
  IF hooks[c].closure = NoEffect THEN s ELSE SetDelete(s, hooks[c].closure)

\* The effect (types.ts 262-269): the cleanup of the previous run unsubscribes
\* its listener, then a new listener, closing over this render's selectedState,
\* is subscribed.
Effect(c) ==
  /\ Idle
  /\ hooks[c].mounted
  /\ hooks[c].hook = "useStore"
  /\ hooks[c].effectDue
  /\ subscribers' =
       Settle(SetAdd(Cleanup(c, subscribers), Listener(c, hooks[c].selectedState)),
              stack)
  /\ hooks' = [hooks EXCEPT ![c].effectDue = FALSE,
                            ![c].closure = Listener(c, hooks[c].selectedState)]
  /\ last' = [op |-> "react"]
  /\ UNCHANGED <<regVars, middleware, stateRef, unsubs, stack, via, log>>

\* The component is unmounted: React runs the cleanup of its effect.
Unmount(c) ==
  /\ Idle
  /\ hooks[c].mounted
  /\ hooks[c].hook = "useStore"
  /\ subscribers' = Settle(Cleanup(c, subscribers), stack)
  /\ hooks' = [hooks EXCEPT ![c] = NotMounted]
  /\ last' = [op |-> "unmount", c |-> c, closure |-> hooks[c].closure]
  /\ UNCHANGED <<regVars, middleware, stateRef, unsubs, stack, via, log>>

\* What the listener compares the new selection with: the selectedState of its
\* closure (types.ts 265).
ListenerCompares(cb) == cb.selectedState

\* (a listener that calls setSelectedState whatever the predicate says)
ListenerReplaces_Always(c, newValue, old) == TRUE

\* The arguments the listener gives the predicate, in order (types.ts 265):
\*   predicateFn(newValue, selectedState)
PredicateArgs(newValue, selectedState) == <<newValue, selectedState>>

\* Whether the listener calls setSelectedState (types.ts 265):
\*   if (!predicateFn(newValue, selectedState))
ListenerReplaces(c, newValue, old) ==
  LET args == PredicateArgs(newValue, old) IN
  ~predicateFn(hooks[c].predicate, args[1], args[2])

(***************************************************************************)
(* Middleware (types.ts 179): (setState, getState) => StateSetter.         *)
(* The middlewares of the examples are logging middlewares (part_006       *)
(* 10-14, README "Middleware Integration"): they read the state, call the  *)
(* setter they were given with the input, and read the state again.        *)
(* A setter is the raw setter, the setter a middleware returned (it knows  *)
(* the setter the middleware was given), or the setter compose returned.   *)
(***************************************************************************)
NoMiddleware == [kind |-> "none"]
Logging(name) == [kind |-> "logging", name |-> name]
Composed(fns) == [kind |-> "composed", fns |-> fns]

\* Other middlewares a store can be given: one whose setter returns without
\* calling the setter it was given, and one whose setter calls it two times.
Custom(name) == [kind |-> "custom", name |-> name]

\* How many times the setter of the middleware calls the setter it was given.
Delegations(name) ==
  CASE name = "block" -> 0
    [] name = "twice" -> 2
    [] OTHER -> 1

Middlewares ==
  {NoMiddleware, Logging("a"), Composed(<<Logging("a"), Logging("b")>>),
   Custom("block"), Custom("twice")}

Raw == [k |-> "raw"]
Wrapped(name, next) == [k |-> "wrapped", name |-> name, next |-> next]
Chain(ss) == [k |-> "chain", ss |-> ss]

\* compose (types.ts 350-355), applied to (setState, getState):
\*   const chain = fns.map((middleware) => middleware(setState, getState));
\*   return (input) => chain.forEach((stateSetter) => stateSetter(input));
compose(fns, setState) ==
  Chain([n \in 1..Len(fns) |-> Wrapped(fns[n].name, setState)])

\* (a setState that calls baseSetState whatever middleware the store was given)
finalSetState_Raw(mw) == Raw

\* setState (types.ts 231-237):
\*   const finalSetState = middleware ? middleware(baseSetState, getState) : baseSetState
finalSetState(mw) ==
  CASE mw.kind = "none" -> Raw
    [] mw.kind = "composed" -> compose(mw.fns, Raw)
    [] OTHER -> Wrapped(mw.name, Raw)

(***************************************************************************)
(* baseSetState (types.ts 216-228): the new value of stateRef.current.     *)
(***************************************************************************)
\* (the function form replaces the state by the function's result, as in
\* create-store.tsx 131, instead of merging it)
baseSetStateValue_NoMerge(cur, input, id) ==
  CASE TypeOf(input) = "function" -> Obj(CallFn(input.name, cur).f, id)
    [] TypeOf(input) = "object" -> Obj(Spread(cur, input), id)
    [] OTHER -> input

\* (an update in place: Object.assign(stateRef.current, input))
baseSetStateValue_InPlace(cur, input, id) ==
  CASE TypeOf(input) = "function" -> Obj(Spread(cur, CallFn(input.name, cur)), cur.id)
    [] TypeOf(input) = "object" -> Obj(Spread(cur, input), cur.id)
    [] OTHER -> input

baseSetStateValue(cur, input, id) ==
  CASE TypeOf(input) = "function" -> Obj(Spread(cur, CallFn(input.name, cur)), id)
    [] TypeOf(input) = "object" -> Obj(Spread(cur, input), id)
    [] OTHER -> input

\* (one stateRef for the store, shared by its Providers, as `subscribers` is)
RefOf_Shared(i) == CHOOSE j \in Inst : Mounted(j)

\* The stateRef the baseSetState of instance i closes over: that of its own
\* Provider render (types.ts 240).
RefOf(i) == i

\* The frame of a subscribers.forEach, with its history: the callbacks
\* registered when it began, those it has called, the useStore calls that were
\* settled when it began and how often each has called setSelectedState since.
\* (a forEach that is given the set and calls nothing)
ForEachFrame_Skip(i, s) ==
  [k |-> "forEach", inst |-> i, idx |-> Len(s), before |-> Members(s),
   called |-> <<>>, prev |-> stateRef[i], settled |-> {},
   asked |-> [c \in Cons |-> 0]]

ForEachFrame(i, s) ==
  [k |-> "forEach", inst |-> i, idx |-> 0, before |-> Members(s), called |-> <<>>,
   prev |-> stateRef[i], settled |-> {c \in Cons : Settled(c)},
   asked |-> [c \in Cons |-> 0]]

(***************************************************************************)
(* Calling a setter for instance i with input, above the frames of base,   *)
(* lg being the log so far.  The raw setter writes the state and starts    *)
(* subscribers.forEach; the others start running their code.               *)
(***************************************************************************)
Call(setter, i, input, base, lg) ==
  CASE setter.k = "raw" ->
         LET next == baseSetStateValue(stateRef[RefOf(i)], input, NewId) IN
         /\ stateRef' = [stateRef EXCEPT ![RefOf(i)] = next]
         /\ last' = [op |-> "set", inst |-> i, input |-> input, prev |-> stateRef]
         /\ stack' = Append(base, ForEachFrame(i, subscribers))
         /\ log' = Append(lg, [ev |-> "set"])
    [] setter.k = "wrapped" ->
         /\ stack' = Append(base, [k |-> "middleware", name |-> setter.name,
                                   next |-> setter.next, inst |-> i,
                                   input |-> input, done |-> 0,
                                   pc |-> IF Delegations(setter.name) = 0
                                          THEN "after" ELSE "before"])
         /\ log' = lg
         /\ last' = None
         /\ UNCHANGED stateRef
    [] setter.k = "chain" ->
         /\ stack' = Append(base, [k |-> "chain", ss |-> setter.ss, pos |-> 0,
                                   inst |-> i, input |-> input])
         /\ log' = lg
         /\ last' = None
         /\ UNCHANGED stateRef

Top == stack[Len(stack)]
Below == SubSeq(stack, 1, Len(stack) - 1)

\* An event handler calls the setState of instance i (types.ts 231-237).
SetState(i, input) ==
  /\ Idle
  /\ Mounted(i)
  /\ TypeOf(input) = "function" => FnInRange(input.name, stateRef[i])
  /\ Call(finalSetState(middleware), i, input, <<>>, <<>>)
  /\ UNCHANGED <<regVars, middleware, subscribers, unsubs, hooks, via>>

\* A middleware's setter runs up to its next call of the setter it was given.
MiddlewareBefore ==
  /\ ~Idle
  /\ Top.k = "middleware"
  /\ Top.pc = "before"
  /\ Call(Top.next, Top.inst, Top.input,
          Append(Below, [Top EXCEPT !.done = @ + 1,
                                    !.pc = IF Top.done + 1 = Delegations(Top.name)
                                           THEN "after" ELSE "before"]),
          Append(log, [ev |-> "enter", mw |-> Top.name]))
  /\ UNCHANGED <<regVars, middleware, subscribers, unsubs, hooks, via>>

\* ... and from there to its end.
MiddlewareAfter ==
  /\ ~Idle
  /\ Top.k = "middleware"
  /\ Top.pc = "after"
  /\ stack' = Below
  /\ log' = Append(log, [ev |-> "exit", mw |-> Top.name])
  /\ subscribers' = Settle(subscribers, Below)
  /\ last' = None
  /\ UNCHANGED <<regVars, middleware, stateRef, unsubs, hooks, via>>

\* chain.forEach((stateSetter) => stateSetter(input)): the next setter of the chain.
ChainNext ==
  /\ ~Idle
  /\ Top.k = "chain"
  /\ Top.pos < Len(Top.ss)
  /\ Call(Top.ss[Top.pos + 1], Top.inst, Top.input,
          Append(Below, [Top EXCEPT !.pos = @ + 1]), log)
  /\ UNCHANGED <<regVars, middleware, subscribers, unsubs, hooks, via>>

ChainEnd ==
  /\ ~Idle
  /\ Top.k = "chain"
  /\ Top.pos = Len(Top.ss)
  /\ stack' = Below
  /\ subscribers' = Settle(subscribers, Below)
  /\ last' = None
  /\ UNCHANGED <<regVars, middleware, stateRef, unsubs, hooks, via, log>>

(***************************************************************************)
(* subscribers.forEach((callback) => callback()) (types.ts 227).           *)
(***************************************************************************)
\* (a forEach that begins at the second entry)
NextEntry_SkipsFirst(s, idx) ==
  LET later == {j \in (idx + 1)..Len(s) : s[j] # Empty /\ j > 1} IN
  IF later = {} THEN 0 ELSE CHOOSE j \in later : \A m \in later : j <= m

\* The index of the next entry forEach visits after index idx; 0 when there is none.
NextEntry(s, idx) ==
  LET later == {j \in (idx + 1)..Len(s) : s[j] # Empty} IN
  IF later = {} THEN 0 ELSE CHOOSE j \in later : \A m \in later : j <= m

\* forEach calls the next callback, which makes the calls of script.
Notify(script) ==
  /\ ~Idle
  /\ Top.k = "forEach"
  /\ NextEntry(subscribers, Top.idx) # 0
  /\ LET j == NextEntry(subscribers, Top.idx)
         cb == subscribers[j]
         stk == Append(Below, [Top EXCEPT !.idx = j, !.called = Append(@, cb)])
         st == [Store EXCEPT !.last = [op |-> "callback", cb |-> cb,
                                       inst |-> Top.inst, via |-> via[cb]]]
     IN /\ cb.kind = "plain"
        /\ CanRun(st, script)
        /\ stack' = stk
        /\ Becomes(Run(st, script), stk)
  /\ UNCHANGED <<regVars, middleware, stateRef, hooks, log>>

\* forEach calls the next callback, which reads the state with getState and,
\* in NotifySets, calls setState(input) of the instance that is notifying:
\* baseSetState writes the state and runs a forEach of its own before the
\* callback returns (types.ts 216-228).  Here the log records each call of a
\* callback with the state it read.
Observed(cb, i) == [ev |-> "callback", cb |-> cb, saw |-> getState(i)]

NotifyObserves ==
  /\ ~Idle
  /\ Top.k = "forEach"
  /\ NextEntry(subscribers, Top.idx) # 0
  /\ LET j == NextEntry(subscribers, Top.idx)
         cb == subscribers[j]
     IN /\ cb.kind = "plain"
        /\ stack' = Append(Below, [Top EXCEPT !.idx = j, !.called = Append(@, cb)])
        /\ log' = Append(log, Observed(cb, Top.inst))
        /\ last' = [op |-> "callback", cb |-> cb, inst |-> Top.inst, via |-> via[cb]]
  /\ UNCHANGED <<regVars, middleware, stateRef, subscribers, unsubs, hooks, via>>

NotifySets(input) ==
  /\ ~Idle
  /\ Top.k = "forEach"
  /\ NextEntry(subscribers, Top.idx) # 0
  /\ Len(stack) < MaxDepth
  /\ LET j == NextEntry(subscribers, Top.idx)
         cb == subscribers[j]
     IN /\ cb.kind = "plain"
        /\ Call(finalSetState(middleware), Top.inst, input,
                Append(Below, [Top EXCEPT !.idx = j, !.called = Append(@, cb)]),
                Append(log, Observed(cb, Top.inst)))
  /\ UNCHANGED <<regVars, middleware, subscribers, unsubs, hooks, via>>

\* The same step for the question whether forEach ends.  What forEach does
\* next depends on the entries that are not empty, in their order, and on
\* how many of them are at or before the index it has reached; so here the
\* empty entries are dropped after every callback and the index is that
\* number, and the frame keeps no record of the callbacks it has called.
LiveUpTo(s, idx) == Cardinality({m \in 1..idx : s[m] # Empty})

LoopNotify(script) ==
  /\ ~Idle
  /\ Top.k = "forEach"
  /\ NextEntry(subscribers, Top.idx) # 0
  /\ LET j == NextEntry(subscribers, Top.idx)
         cb == subscribers[j]
         st == [Store EXCEPT !.last = [op |-> "callback", cb |-> cb,
                                       inst |-> Top.inst, via |-> via[cb]]]
     IN /\ cb.kind = "plain"
        /\ CanRun(st, script)
        /\ LET out == Run(st, script) IN
           /\ stack' = Append(Below, [Top EXCEPT !.idx = LiveUpTo(out.subscribers, j)])
           /\ subscribers' = Compact(out.subscribers)
           /\ unsubs' = out.unsubs
           /\ via' = out.via
           /\ last' = out.last
  /\ UNCHANGED <<regVars, middleware, stateRef, hooks, log>>

\* (a forEach that catches what a callback throws and goes on)
Unwind_Caught(stk) == stk

\* The frames left when a callback throws: forEach, baseSetState and setState
\* have no try/catch (types.ts 216-237), so the exception leaves them all and
\* reaches the caller of setState.
Unwind(stk) == <<>>

\* forEach calls the next callback and the callback throws.
NotifyThrow ==
  /\ ~Idle
  /\ Top.k = "forEach"
  /\ NextEntry(subscribers, Top.idx) # 0
  /\ LET j == NextEntry(subscribers, Top.idx)
         cb == subscribers[j]
     IN /\ cb.kind = "plain"
        /\ stack' = Unwind(Append(Below, [Top EXCEPT !.idx = j,
                                                     !.called = Append(@, cb)]))
        /\ subscribers' = Settle(subscribers, stack')
        /\ last' = [op |-> "throw", inst |-> Top.inst, cb |-> cb,
                    before |-> Top.before, called |-> Append(Top.called, cb),
                    prev |-> Top.prev]
  /\ UNCHANGED <<regVars, middleware, stateRef, unsubs, hooks, via, log>>

\* forEach calls the next callback, a useStore listener (types.ts 263-268):
\*   const newValue = selectorFn(getState());
\*   if (!predicateFn(newValue, selectedState)) setSelectedState(newValue);
NotifyListener ==
  /\ ~Idle
  /\ Top.k = "forEach"
  /\ NextEntry(subscribers, Top.idx) # 0
  /\ LET j == NextEntry(subscribers, Top.idx)
         cb == subscribers[j]
     IN /\ cb.kind = "listener"
        /\ LET c == cb.c
               newValue == selectorFn(hooks[c].selector, getState(hooks[c].inst))
               replaces == ListenerReplaces(c, newValue, ListenerCompares(cb))
           IN /\ hooks' = IF replaces THEN [hooks EXCEPT ![c].pending = newValue]
                          ELSE hooks
              /\ stack' = Append(Below,
                    [Top EXCEPT !.idx = j, !.called = Append(@, cb),
                                !.asked[c] = IF replaces THEN @ + 1 ELSE @])
              /\ last' = [op |-> "listener", c |-> c, newValue |-> newValue,
                          retained |-> Retained(c), replaces |-> replaces,
                          closed |-> ListenerCompares(cb),
                          args |-> PredicateArgs(newValue, ListenerCompares(cb))]
  /\ UNCHANGED <<regVars, middleware, stateRef, subscribers, unsubs, via, log>>

\* forEach has no entry left: baseSetState returns.
NotifyEnd ==
  /\ ~Idle
  /\ Top.k = "forEach"
  /\ NextEntry(subscribers, Top.idx) = 0
  /\ stack' = Below
  /\ last' = [op |-> "forEach", inst |-> Top.inst, before |-> Top.before,
              called |-> Top.called, prev |-> Top.prev, settled |-> Top.settled,
              asked |-> Top.asked]
  /\ subscribers' = Settle(subscribers, Below)
  /\ UNCHANGED <<regVars, middleware, stateRef, unsubs, hooks, via, log>>

(***************************************************************************)
(* useSubscribe (types.ts 274-296).  Every render of the component sets    *)
(* selectionRef.current to the selection of the current state and returns  *)
(* a function that subscribes a wrapper of the callback it is given; the   *)
(* component calls that function in an effect (part_006 119-126, part_007  *)
(* 321-344).  The component holds no useState of the store, so nothing     *)
(* queues an update for it: pending stays NoUpdate.                        *)
(***************************************************************************)
Wrapper(c, n) == [kind |-> "wrapper", c |-> c, n |-> n]

\* First render of a component that calls useSubscribe under instance i.
useSubscribe(c, i, selector, predicate) ==
  /\ Idle
  /\ ~hooks[c].mounted
  /\ Mounted(i)
  /\ hooks' = [hooks EXCEPT ![c] =
       [mounted |-> TRUE, hook |-> "useSubscribe", inst |-> i,
        selector |-> selector, predicate |-> predicate,
        selectionRef |-> selectorFn(selector, getState(i)),
        pending |-> NoUpdate, effectDue |-> TRUE]]
  /\ last' = [op |-> "react"]
  /\ UNCHANGED <<regVars, middleware, stateRef, subscribers, unsubs, stack, via, log>>

\* A later render of the component, caused by its parent (types.ts 282):
\*   selectionRef.current = selectorFn(getState())
RenderSubscribe(c) ==
  /\ Idle
  /\ hooks[c].mounted
  /\ hooks[c].hook = "useSubscribe"
  /\ hooks' = [hooks EXCEPT ![c].selectionRef =
                 selectorFn(hooks[c].selector, getState(hooks[c].inst))]
  /\ last' = [op |-> "react"]
  /\ UNCHANGED <<regVars, middleware, stateRef, subscribers, unsubs, stack, via, log>>

\* The effect of the component: subscribe(cb) (types.ts 286-293), for each of
\* the n callbacks the component registers through the function it got.
RECURSIVE AddWrappers(_, _, _)
AddWrappers(s, c, n) ==
  IF n = 0 THEN s ELSE SetAdd(AddWrappers(s, c, n - 1), Wrapper(c, n))

SubscribeEffect(c, n) ==
  /\ Idle
  /\ hooks[c].mounted
  /\ hooks[c].hook = "useSubscribe"
  /\ hooks[c].effectDue
  /\ subscribers' = Settle(AddWrappers(subscribers, c, n), stack)
  /\ hooks' = [hooks EXCEPT ![c].effectDue = FALSE]
  /\ last' = [op |-> "react"]
  /\ UNCHANGED <<regVars, middleware, stateRef, unsubs, stack, via, log>>

\* Whether the wrapper invokes the callback (types.ts 288):
\*   if (!predicateFn(newValue, selectionRef.current))
WrapperInvokes(c, newValue) ==
  ~predicateFn(hooks[c].predicate, newValue, hooks[c].selectionRef)

\* forEach calls the next callback, a wrapper (types.ts 286-292):
\*   const newValue = selectorFn(getState());
\*   if (!predicateFn(newValue, selectionRef.current)) {
\*     selectionRef.current = newValue; cb(newValue); }
\* The event records the selection of the state the component's Provider
\* held before the setState that is notifying (`was`).
NotifyWrapper ==
  /\ ~Idle
  /\ Top.k = "forEach"
  /\ NextEntry(subscribers, Top.idx) # 0
  /\ LET j == NextEntry(subscribers, Top.idx)
         cb == subscribers[j]
     IN /\ cb.kind = "wrapper"
        /\ LET c == cb.c
               newValue == selectorFn(hooks[c].selector, getState(hooks[c].inst))
               invokes == WrapperInvokes(c, newValue)
           IN /\ hooks' = IF invokes THEN [hooks EXCEPT ![c].selectionRef = newValue]
                          ELSE hooks
              /\ stack' = Append(Below,
                    [Top EXCEPT !.idx = j, !.called = Append(@, cb)])
              /\ last' = [op |-> "wrapper", c |-> c, n |-> cb.n, invoked |-> invokes,
                          given |-> newValue,
                          was |-> IF Top.inst = hooks[c].inst
                                  THEN selectorFn(hooks[c].selector, Top.prev)
                                  ELSE newValue,
                          ref |-> hooks[c].selectionRef]
  /\ UNCHANGED <<regVars, middleware, stateRef, subscribers, unsubs, via, log>>

(***************************************************************************)
(* The registry variant (create-store.tsx 29-66, models/store-manager.ts). *)
(* A React Context is known by the number of the createStore call that     *)
(* made it: the k-th store returned by createStore has Context k.          *)
(***************************************************************************)
Context(k) == [t |-> "context", n |-> k]

\* !x
Falsy(x) == x \in {Undefined, Null, Num(0), NaN}

\* get mapSize (store-manager.ts 7-9)
mapSize(sm) == Cardinality(DOMAIN sm.contextsMap)

\* get lastContext (store-manager.ts 11-13):
\*   return this.lastId && this.contextsMap[this.lastId]
lastContext(sm) ==
  IF Falsy(sm.lastId) THEN sm.lastId
  ELSE IF sm.lastId.v \in DOMAIN sm.contextsMap
       THEN Context(sm.contextsMap[sm.lastId.v])
       ELSE Undefined

\* (a registerContext that stores the context whether or not the id is taken)
registerContext_Overwrite(sm, id, context) ==
  [lastId |-> Num(id),
   contextsMap |-> [k \in DOMAIN sm.contextsMap \cup {id} |->
                      IF k = id THEN context ELSE sm.contextsMap[k]]]

\* registerContext (store-manager.ts 15-20)
registerContext(sm, id, context) ==
  IF id \notin DOMAIN sm.contextsMap
  THEN [lastId |-> Num(id),
        contextsMap |-> [k \in DOMAIN sm.contextsMap \cup {id} |->
                           IF k = id THEN context ELSE sm.contextsMap[k]]]
  ELSE sm

\* createStore (create-store.tsx 29-66):
\*   const storeId = storeManager.mapSize + 1;  ...
\*   return new Store({ id: storeId, Context, Provider })
createStore ==
  /\ Len(stores) < MaxStores
  /\ stores' = Append(stores, [id |-> mapSize(storeManager) + 1, rendered |-> FALSE])
  /\ last' = [op |-> "createStore", store |-> Len(stores) + 1]
  /\ UNCHANGED <<middleware, stateRef, subscribers, unsubs, stack, hooks,
                 storeManager, calls, via, log>>

\* A render of the Provider of the k-th store (create-store.tsx 34-36):
\*   storeManager.registerContext(storeId, Context)
ProviderRender(k) ==
  /\ Len(calls) < MaxCalls
  /\ storeManager' = registerContext(storeManager, stores[k].id, k)
  /\ stores' = [stores EXCEPT ![k].rendered = TRUE]
  /\ calls' = Append(calls, [id |-> stores[k].id, context |-> k])
  /\ last' = [op |-> "register", store |-> k]
  /\ UNCHANGED <<middleware, stateRef, subscribers, unsubs, stack, hooks, via, log>>

\* The Providers that can enclose a component, nearest first: Providers of
\* different stores that have rendered.
RECURSIVE PathsUpTo(_)
PathsUpTo(n) ==
  IF n = 0 THEN {<<>>}
  ELSE PathsUpTo(n - 1)
         \cup {<<k>> \o p : k \in {j \in 1..Len(stores) : stores[j].rendered},
                            p \in {q \in PathsUpTo(n - 1) : Len(q) = n - 1}}

Paths == {p \in PathsUpTo(MaxPath) : \A m, n \in 1..Len(p) : p[m] = p[n] => m = n}

\* useContext(storeContext) in a component enclosed by the Providers of path:
\* the contextValue of the nearest Provider of that Context, or undefined.
useStoreContext(storeContext, path) ==
  IF \E n \in 1..Len(path) : path[n] = storeContext.n
  THEN [t |-> "contextValue", store |-> storeContext.n]
  ELSE Undefined

\* The first lines of useSelector and useDispatch (hooks.ts 109-122, 143-156),
\* given the store argument k (0: no argument):
\*   const storeContext = store ? storeManager.contextsMap[store.id]
\*                              : storeManager.lastContext;
\*   if (!storeContext) throw ...
\*   const storeContextValue = useContext(storeContext);
\*   if (!storeContextValue) throw ...
\* The error thrown when no context is found (hooks.ts 115, 149).
NotRegistered(hook) ==
  IF hook = "useDispatch"
  THEN [t |-> "error",
        message |-> <<"useDispatch", " must be used within a LiteStore.Provider">>]
  ELSE Error("useStore")

\* The error thrown when no Provider of the context encloses the component
\* (hooks.ts 121, 155).
NotEnclosed(hook) == Error("useStore")

Resolve(hook, k, path) ==
  LET storeContext ==
        IF k # 0
        THEN IF stores[k].id \in DOMAIN storeManager.contextsMap
             THEN Context(storeManager.contextsMap[stores[k].id])
             ELSE Undefined
        ELSE lastContext(storeManager)
  IN IF Falsy(storeContext)
     THEN [threw |-> TRUE, error |-> NotRegistered(hook)]
     ELSE IF Falsy(useStoreContext(storeContext, path))
     THEN [threw |-> TRUE, error |-> NotEnclosed(hook)]
     ELSE [threw |-> FALSE, value |-> useStoreContext(storeContext, path)]

\* A component enclosed by the Providers of path calls useSelector or
\* useDispatch with store argument k (0: without one).
UseStoreHook(hook, k, path) ==
  /\ last' = [op |-> "resolve", hook |-> hook, store |-> k, path |-> path,
              out |-> Resolve(hook, k, path)]
  /\ UNCHANGED <<regVars, middleware, stateRef, subscribers, unsubs, stack, hooks, via, log>>

(***************************************************************************)
(* shallowEqual (part_003 3-43, and the same code in part_002 90-136).     *)
(* The key-maps given to it hold values of any type in their fields: f     *)
(* maps each own key to a value.  A call returns a boolean or throws.      *)
(***************************************************************************)
Returns(value) == [threw |-> FALSE, value |-> value]
Throws(error) == [threw |-> TRUE, error |-> error]

\* Array.isArray(x)
isArray(x) == x.t = "array"

\* obj[key]: undefined for a key the object does not have.
Get(obj, key) == IF key \in DOMAIN obj.f THEN obj.f[key] ELSE Undefined

\* shallowEqualArray (part_003 26-32): arr2[index] is read only when the
\* lengths are equal.
shallowEqualArray(arr1, arr2) ==
  IF StrictEq(arr1, arr2) THEN TRUE
  ELSE /\ Len(arr1.e) = Len(arr2.e)
       /\ \A index \in 1..Len(arr1.e) : StrictEq(arr1.e[index], arr2.e[index])

\* shallowEqualObject (part_003 34-43).  Reflect.ownKeys throws a TypeError
\* when it is given a primitive.
shallowEqualObject(obj1, obj2) ==
  IF obj1.t # "object" \/ obj2.t # "object" THEN Throws("TypeError")
  ELSE LET keys1 == DOMAIN obj1.f
           keys2 == DOMAIN obj2.f
       IN IF StrictEq(obj1, obj2) THEN Returns(TRUE)
          ELSE Returns(/\ Cardinality(keys1) = Cardinality(keys2)
                       /\ \A key \in keys1 : StrictEq(obj1.f[key], Get(obj2, key)))

\* shallowEqual (part_003 3-24)
shallowEqual(a, b) ==
  IF TypeOf(a) # "object" /\ TypeOf(b) # "object" THEN Returns(StrictEq(a, b))
  ELSE IF Falsy(a) \/ Falsy(b) THEN Returns(StrictEq(a, b))
  ELSE IF isArray(a) # isArray(b) THEN Returns(FALSE)
  ELSE IF isArray(a) /\ isArray(b) THEN Returns(shallowEqualArray(a, b))
  ELSE shallowEqualObject(a, b)

\* The values given to it.  Elements and field values: undefined, numbers,
\* and two distinct objects { x: 1 }.
Inner(n) == Obj([x |-> 1], MaxObjects + n)
ElemVals == {Undefined, Inner(1), Inner(2)} \cup {Num(v) : v \in Vals}
EqKeys == {"a", "b"}
Primitives == {Undefined, Null, NaN} \cup {Num(v) : v \in Vals}
Arrays ==
  {Arr(e, id) : e \in UNION {[1..n -> ElemVals] : n \in 0..MaxLen},
                id \in 1..MaxObjects}
KeyMaps ==
  {Obj(f, id) : f \in UNION {[K -> ElemVals] : K \in SUBSET EqKeys},
                id \in 1..MaxObjects}
EqValues == Primitives \cup Arrays \cup KeyMaps

\* The pairs of arguments: one object is not two different things.
EqArgs ==
  {p \in EqValues \X EqValues :
     (p[1].t = p[2].t /\ p[1].t \in {"array", "object"} /\ p[1].id = p[2].id)
       => p[1] = p[2]}

\* The call shallowEqual(a, b) of the arguments chosen.
ShallowEqual ==
  /\ last.op = "args"
  /\ last' = [op |-> "shallowEqual", a |-> last.a, b |-> last.b,
              out |-> shallowEqual(last.a, last.b)]
  /\ UNCHANGED <<regVars, middleware, stateRef, subscribers, unsubs, stack, hooks,
                 via, log>>

(***************************************************************************)
(* The store after createStore(stateBuilder, middleware): no Provider has  *)
(* rendered, nothing is subscribed.                                        *)
(***************************************************************************)
Init ==
  /\ middleware \in Middlewares
  /\ stateRef = [i \in Inst |-> Unmounted]
  /\ subscribers = <<>>
  /\ unsubs = [cb \in PlainCbs |-> [fresh |-> 0, used |-> FALSE, resub |-> FALSE]]
  /\ stack = <<>>
  /\ hooks = [c \in Cons |-> NotMounted]
  /\ storeManager = [lastId |-> Null, contextsMap |-> NoFields]
  /\ stores = <<>>
  /\ calls = <<>>
  /\ via = [cb \in PlainCbs |-> {}]
  /\ log = <<>>
  /\ last = None

(***************************************************************************)
(* Spec: the state cells and the setters.  Every Provider value, every     *)
(* input and every middleware; one callback, which only listens.           *)
(***************************************************************************)
Next ==
  \/ \E i \in Inst, value \in ValueProps : Provider(i, value)
  \/ \E i \in Inst : Subscribe(i, Plain(1))
  \/ \E again \in BOOLEAN : Unsubscribe(Plain(1), again)
  \/ \E i \in Inst, input \in Inputs : SetState(i, input)
  \/ \E name \in HookNames, i \in Inst \cup {NoProvider} : CallHook(name, i)
  \/ MiddlewareBefore
  \/ MiddlewareAfter
  \/ ChainNext
  \/ ChainEnd
  \/ Notify(<<>>)
  \/ NotifyEnd

Spec == Init /\ [][Next]_vars

(***************************************************************************)
(* SpecSubs: the subscriber set.  No middleware, one input; callbacks      *)
(* that subscribe and unsubscribe while they are notified.                 *)
(***************************************************************************)
InitSubs == Init /\ middleware = NoMiddleware

NextSubs ==
  \/ \E i \in Inst : Provider(i, Undefined)
  \/ \E i \in Inst, cb \in PlainCbs : Subscribe(i, cb)
  \/ \E cb \in PlainCbs, again \in BOOLEAN : Unsubscribe(cb, again)
  \/ \E i \in Inst : SetState(i, Obj([count |-> 1], 0))
  \/ \E script \in Scripts : Notify(script)
  \/ NotifyThrow
  \/ NotifyEnd

SpecSubs == InitSubs /\ [][NextSubs]_vars

\* Callbacks that are passed to subscribe two times.
NextTwice ==
  \/ \E i \in Inst : Provider(i, Undefined)
  \/ \E i \in Inst, cb \in PlainCbs : Subscribe(i, cb)
  \/ \E i \in Inst, cb \in PlainCbs : SubscribeTwice(i, cb)
  \/ \E cb \in PlainCbs, again \in BOOLEAN : Unsubscribe(cb, again)
  \/ \E i \in Inst : SetState(i, Obj([count |-> 1], 0))
  \/ Notify(<<>>)
  \/ NotifyEnd

SpecTwice == InitSubs /\ [][NextTwice]_vars

\* The notification loop on its own: callbacks that subscribe and unsubscribe
\* while they are notified and never call setState.  baseSetState runs
\* forEach to its end without yielding (types.ts 226-227), so a step of the
\* loop that can be taken is taken: weak fairness of the loop's steps.
LoopStep == (\E script \in Scripts : LoopNotify(script)) \/ NotifyEnd

NextLoop ==
  \/ \E i \in Inst : Provider(i, Undefined)
  \/ \E i \in Inst, cb \in PlainCbs : Subscribe(i, cb)
  \/ \E cb \in PlainCbs, again \in BOOLEAN : Unsubscribe(cb, again)
  \/ \E i \in Inst : SetState(i, Obj([count |-> 1], 0))
  \/ \E script \in Scripts : LoopNotify(script)
  \/ NotifyEnd

SpecLoop == InitSubs /\ [][NextLoop]_vars /\ WF_vars(LoopStep)

\* The store without middleware under components that call useStore.
InitHook == Init /\ middleware = NoMiddleware

\* setCount(v) of the examples: setState({ count: v })
HookInputs == {Obj([count |-> v], 0) : v \in Vals}

NextHook ==
  \/ \E i \in Inst : (\A j \in 1..(i - 1) : Mounted(j)) /\ Provider(i, Undefined)
  \/ \E c \in Cons, i \in Inst, a \in HookArgs :
       (\A d \in 1..(c - 1) : hooks[d].mounted) /\ useStore(c, i, a[1], a[2])
  \/ \E c \in Cons : Render(c)
  \/ \E c \in Cons : Effect(c)
  \/ \E i \in Inst, input \in HookInputs : SetState(i, input)
  \/ NotifyListener
  \/ NotifyEnd

SpecHook == InitHook /\ [][NextHook]_vars

\* One Provider whose subscribers call setState while they are notified.
NextReentrant ==
  \/ Provider(1, Undefined)
  \/ \E cb \in PlainCbs : Subscribe(1, cb)
  \/ \E input \in HookInputs : SetState(1, input)
  \/ NotifyObserves
  \/ \E input \in HookInputs : NotifySets(input)
  \/ NotifyEnd

SpecReentrant == InitSubs /\ [][NextReentrant]_vars

\* Calls of shallowEqual: any two arguments, then the call.
InitEq ==
  /\ middleware = NoMiddleware
  /\ stateRef = [i \in Inst |-> Unmounted]
  /\ subscribers = <<>>
  /\ unsubs = [cb \in PlainCbs |-> [fresh |-> 0, used |-> FALSE, resub |-> FALSE]]
  /\ stack = <<>>
  /\ hooks = [c \in Cons |-> NotMounted]
  /\ storeManager = [lastId |-> Null, contextsMap |-> NoFields]
  /\ stores = <<>>
  /\ calls = <<>>
  /\ via = [cb \in PlainCbs |-> {}]
  /\ log = <<>>
  /\ last \in {[op |-> "args", a |-> p[1], b |-> p[2]] : p \in EqArgs}

NextEq == ShallowEqual

SpecEq == InitEq /\ [][NextEq]_vars

\* The store without middleware under Providers that render again, with
\* consumers that read the state through useGetState.
NextNest ==
  \/ \E i \in Inst, value \in ValueProps : Provider(i, value)
  \/ \E i \in Inst, value \in ValueProps : ProviderAgain(i, value)
  \/ \E i \in Inst : Subscribe(i, Plain(1))
  \/ \E i \in Inst, input \in HookInputs : SetState(i, input)
  \/ \E i \in Inst \cup {NoProvider} : CallHook("useGetState", i)
  \/ Notify(<<>>)
  \/ NotifyEnd

SpecNest == InitHook /\ [][NextNest]_vars

\* The same, with components that are unmounted.
NextLife ==
  \/ NextHook
  \/ \E c \in Cons : Unmount(c)

SpecLife == InitHook /\ [][NextLife]_vars

\* The store without middleware under components that call useSubscribe.
NextTransient ==
  \/ \E i \in Inst : (\A j \in 1..(i - 1) : Mounted(j)) /\ Provider(i, Undefined)
  \/ \E c \in Cons, i \in Inst, a \in HookArgs :
       (\A d \in 1..(c - 1) : hooks[d].mounted) /\ useSubscribe(c, i, a[1], a[2])
  \/ \E c \in Cons : RenderSubscribe(c)
  \/ \E c \in Cons, n \in CbIds : SubscribeEffect(c, n)
  \/ \E i \in Inst, input \in HookInputs : SetState(i, input)
  \/ NotifyWrapper
  \/ NotifyEnd

SpecTransient == InitHook /\ [][NextTransient]_vars

(***************************************************************************)
(* The builder-or-value store (create-store.tsx 265-347).  Its state keeps *)
(* the action functions among its fields: `m` holds the names of the       *)
(* function-valued fields of a state object.  Its setState clones the new  *)
(* state with structuredClone, which copies numbers, arrays and objects of *)
(* them and throws a DataCloneError for a function.                        *)
(***************************************************************************)
WithMethods(f, m, id) == [t |-> "object", f |-> f, m |-> m, id |-> id]

Methods(x) == IF x.t = "object" /\ "m" \in DOMAIN x THEN x.m ELSE {}

\* structuredClone of the object { ...f, methods m }, of an array or of a
\* primitive.
structuredClone(x, id) ==
  IF x.t = "function" \/ Methods(x) # {}
  THEN [threw |-> TRUE, error |-> "DataCloneError"]
  ELSE [threw |-> FALSE, value |-> Built(x, id)]

\* setState (create-store.tsx 280-292): the new stateRef.current, or the throw.
setStateClone(cur, input, id) ==
  CASE TypeOf(input) = "function" ->
         structuredClone(
           WithMethods(Spread(cur, CallFn(input.name, cur)), Methods(cur), id), id)
    [] TypeOf(input) = "object" ->
         structuredClone(
           WithMethods(Spread(cur, input), Methods(cur) \cup Methods(input), id), id)
    [] OTHER -> structuredClone(input, id)

\* The states a Provider of this store starts with (create-store.tsx 294-300,
\* props.value ?? stateBuilder, called if it is a function): the builder's
\* { count: 0, step: 1, setCount } of the examples, or a value prop without
\* action functions.
CloneStates ==
  {WithMethods([count |-> 0, step |-> 1], {"setCount"}, 0)}
    \cup {WithMethods([count |-> 0, step |-> s], {}, 0) : s \in Vals}
    \cup {Num(v) : v \in Vals}

ProviderClone(i, initialState) ==
  /\ Idle
  /\ ~Mounted(i)
  /\ stateRef' = [stateRef EXCEPT ![i] = Built(initialState, NewId)]
  /\ last' = [op |-> "mount", inst |-> i]
  /\ UNCHANGED <<regVars, middleware, subscribers, unsubs, stack, hooks, via, log>>

\* The updates given to it: partial objects, updater functions, numbers.
CloneInputs == Inputs \cup {Num(v) : v \in Vals}

SetStateClone(i, input) ==
  /\ Idle
  /\ Mounted(i)
  /\ TypeOf(input) = "function" => FnInRange(input.name, stateRef[i])
  /\ LET out == setStateClone(stateRef[i], input, NewId) IN
     IF out.threw
     THEN /\ last' = [op |-> "threw", inst |-> i, input |-> input,
                      error |-> out.error, prev |-> stateRef]
          /\ UNCHANGED <<stateRef, stack>>
     ELSE /\ stateRef' = [stateRef EXCEPT ![i] = out.value]
          /\ last' = [op |-> "set", inst |-> i, input |-> input, prev |-> stateRef]
          /\ stack' = <<ForEachFrame(i, subscribers)>>
  /\ UNCHANGED <<regVars, middleware, subscribers, unsubs, hooks, via, log>>

\* selectorFn of the useStore of this store (create-store.tsx 315-318):
\*   (state) => selector?.(state) ?? state
selectorFnClone(selector, state) ==
  IF selector = Undefined THEN state
  ELSE LET out == CallSelector(selector.name, state) IN
       IF out \in {Null, Undefined} THEN state ELSE out

\* The first render of a component that calls useStore(selector) under
\* Provider instance i (create-store.tsx 313-344): it returns the initial
\* value of its useState, selectorFn(getState()).  The selector is a
\* Selector<T, R> of the state type T: it reads a field the state has, or
\* ignores the state.
useStoreClone(i, selector) ==
  /\ Idle
  /\ Mounted(i)
  /\ IF selector = Undefined THEN TRUE
     ELSE selector.name \in DOMAIN Props(getState(i)) \cup {"null"}
  /\ last' = [op |-> "useStore", inst |-> i, selector |-> selector,
              out |-> selectorFnClone(selector, getState(i))]
  /\ UNCHANGED <<regVars, middleware, stateRef, subscribers, unsubs, stack, hooks, via, log>>

NextClone ==
  \/ \E i \in Inst, initialState \in CloneStates : ProviderClone(i, initialState)
  \/ \E i \in Inst, selector \in {Undefined} \cup {Fn(n) : n \in SelectorNames} :
       useStoreClone(i, selector)
  \/ \E i \in Inst : Subscribe(i, Plain(1))
  \/ \E i \in Inst, input \in CloneInputs : SetStateClone(i, input)
  \/ Notify(<<>>)
  \/ NotifyEnd

SpecClone == InitSubs /\ [][NextClone]_vars

(***************************************************************************)
(* SpecPrim: the store of types.ts whose state is a primitive or an array  *)
(* (builders that return a number or an array of numbers), updated with    *)
(* numbers and arrays.                                                     *)
(***************************************************************************)
PrimStates ==
  {Num(v) : v \in Vals} \cup {Arr(<<v>>, 0) : v \in Vals}
    \cup {Arr(<<v, w>>, 0) : v \in Vals, w \in Vals}

NextPrim ==
  \/ \E i \in Inst, value \in PrimStates : Provider(i, value)
  \/ \E i \in Inst : Subscribe(i, Plain(1))
  \/ \E i \in Inst, input \in PrimStates : SetState(i, input)
  \/ Notify(<<>>)
  \/ NotifyEnd

SpecPrim == InitSubs /\ [][NextPrim]_vars

(***************************************************************************)
(* SpecReg: the stores of the registry variant, their Providers' renders,  *)
(* and the components that call useSelector and useDispatch.               *)
(***************************************************************************)
NextReg ==
  \/ createStore
  \/ \E k \in 1..Len(stores) : ProviderRender(k)
  \/ \E hook \in {"useSelector", "useDispatch"}, k \in 0..Len(stores), path \in Paths :
       UseStoreHook(hook, k, path)

SpecReg == InitSubs /\ [][NextReg]_vars


(***************************************************************************)
(*                              The claims                                 *)
(***************************************************************************)
NoDuplicates(q) == \A m, n \in 1..Len(q) : q[m] = q[n] => m = n

ForEachFrames == {n \in 1..Len(stack) : stack[n].k = "forEach"}

\* C1: instance isolation.  A run of the setter of one Provider instance
\* leaves the state every other instance's getState() returns as it was.
C1_InstanceIsolation ==
  last.op = "set" =>
    \A j \in Inst \ {last.inst} : getState(j) = last.prev[j]

\* C1 witness: both instances are mounted, and a setter has just changed the
\* fields of its own instance.
C1_Witness ==
  /\ last.op = "set"
  /\ \A j \in Inst : last.prev[j] # Unmounted
  /\ getState(last.inst).f # last.prev[last.inst].f

\* C2: merge policy.  After baseSetState ran with a plain object u, the state
\* is the previous state with u's keys overwritten and every other key
\* unchanged; with a function f, the same with u = f(previous state).
C2_MergePolicy ==
  last.op = "set" =>
    LET prev == last.prev[last.inst]
        cur == getState(last.inst)
        u == IF TypeOf(last.input) = "function"
             THEN CallFn(last.input.name, prev).f
             ELSE last.input.f
    IN /\ cur.t = "object"
       /\ DOMAIN cur.f = (DOMAIN prev.f) \cup (DOMAIN u)
       /\ \A k \in DOMAIN cur.f :
            cur.f[k] = IF k \in DOMAIN u THEN u[k] ELSE prev.f[k]

\* C2 witness: a function update has changed count and kept step.
C2_Witness ==
  /\ last.op = "set"
  /\ TypeOf(last.input) = "function"
  /\ getState(last.inst).f.count # last.prev[last.inst].f.count
  /\ getState(last.inst).f.step = last.prev[last.inst].f.step

\* C10: middleware composition.  With compose(a, b), a setState call runs a
\* around b around the raw setter: a starts, b starts inside a, the raw setter
\* runs once inside b, b ends, a ends.
C10_ComposeNests ==
  (middleware.kind = "composed" /\ Idle /\ log # <<>>) =>
    log = <<[ev |-> "enter", mw |-> "a"], [ev |-> "enter", mw |-> "b"],
            [ev |-> "set"],
            [ev |-> "exit", mw |-> "b"], [ev |-> "exit", mw |-> "a"]>>

\* C3: whenever a useStore listener is called, it replaces the retained
\* selection (calls setSelectedState) exactly when the predicate reports the
\* new selection not equal to the retained one, the retained selection being
\* the state of the hook's useState.
C3_ReplacesIffNotEqual ==
  last.op = "listener" =>
    (last.replaces <=>
       ~predicateFn(hooks[last.c].predicate, last.newValue, last.retained))

\* C4: when a run of baseSetState has changed the field count and nothing
\* else, every settled useStore call of that Provider with the default
\* predicate has been asked to render again (setSelectedState) exactly once if
\* its selector returns state.count, and not at all if its selector returns
\* state.step or the constant null.
C4_OnlySelectedAsked ==
  (Idle /\ last.op = "forEach"
     /\ last.prev.f.count # stateRef[last.inst].f.count
     /\ last.prev.f.step = stateRef[last.inst].f.step) =>
    \A c \in last.settled :
      (hooks[c].inst = last.inst /\ hooks[c].predicate = Undefined) =>
        /\ hooks[c].selector = Fn("count") => last.asked[c] = 1
        /\ hooks[c].selector \in {Fn("step"), Fn("null")} => last.asked[c] = 0

\* One setState has changed count only, under two settled useStore calls of
\* the same Provider, one selecting count and one selecting step.
C4_Witness ==
  /\ Idle /\ last.op = "forEach"
  /\ last.prev.f.count # stateRef[last.inst].f.count
  /\ last.prev.f.step = stateRef[last.inst].f.step
  /\ \E c, d \in last.settled :
       /\ hooks[c].inst = last.inst /\ hooks[d].inst = last.inst
       /\ hooks[c].predicate = Undefined /\ hooks[d].predicate = Undefined
       /\ hooks[c].selector = Fn("count") /\ hooks[d].selector = Fn("step")
       /\ last.asked[c] = 1 /\ last.asked[d] = 0

\* C5: a forEach that has ended has called every callback that was registered
\* when it began.
C5_AllRegisteredCalled ==
  last.op = "forEach" => last.before \subseteq Range(last.called)

\* C6 as claimed: calling an unsubscribe function again leaves the subscriber
\* set unchanged, whatever happened in between.
C6_AgainIsNoOp ==
  (last.op = "unsubscribe" /\ last.again) => last.after = last.before

\* C6 as amended: an unsubscribe function removes exactly its callback and no
\* other; calling it again leaves the subscriber set unchanged provided the
\* callback has not been subscribed again since an unsubscribe function of it
\* was last called.
C6_RemovesExactlyThat ==
  last.op = "unsubscribe" =>
    /\ last.after = last.before \ {last.cb}
    /\ (last.again /\ ~last.resub) => last.after = last.before

\* C6 witness: an unsubscribe function is called again, the callback has not
\* been subscribed since, and another callback is subscribed.
C6_Witness ==
  /\ last.op = "unsubscribe"
  /\ last.again
  /\ ~last.resub
  /\ last.before # {}

\* C7: one forEach calls each callback at most once.
C7_AtMostOnce ==
  \A n \in ForEachFrames : NoDuplicates(stack[n].called)

\* C8: the callbacks one forEach calls were registered when it began.
C8_OnlyRegisteredAtStart ==
  \A n \in ForEachFrames : Range(stack[n].called) \subseteq stack[n].before

\* C9: the forEach of one Provider instance's setState calls only callbacks
\* subscribed through that instance.
C9_OwnSubscribersOnly ==
  last.op = "callback" => last.inst \in last.via

\* C11: with a middleware, every update goes to the setter the middleware
\* returned: a state cell changes, and a notification begins, only in a step in
\* which that setter calls the raw setter (without middleware: in the step in
\* which setState is called); each such call changes the cell of one instance
\* and begins one notification; under a middleware whose setter never
\* delegates no state changes and no notification runs.
C11_Changed == \E i \in Inst : Mounted(i) /\ stateRef'[i] # stateRef[i]

C11_Began ==
  /\ Len(stack') > 0
  /\ stack'[Len(stack')].k = "forEach"
  /\ \/ Len(stack') > Len(stack)
     \/ Top.k # "forEach"

C11_BySetter ==
  IF middleware = NoMiddleware THEN Idle
  ELSE /\ ~Idle
       /\ Top.k = "middleware"
       /\ Top.pc = "before"
       /\ Top.next = Raw
       /\ Len(stack') = Len(stack) + 1

C11_ThroughMiddleware ==
  /\ [][/\ C11_Changed <=> C11_Began
        /\ C11_Changed => /\ C11_BySetter
                          /\ Cardinality({i \in Inst : stateRef'[i] # stateRef[i]}) = 1
                          /\ last'.op = "set"]_vars
  /\ [](middleware = Custom("block") =>
          /\ ForEachFrames = {}
          /\ last.op \notin {"set", "callback", "forEach"}
          /\ \A i \in Inst : Mounted(i) => stateRef[i].f.count = 0)

\* A setState has returned under the middleware that does not delegate, with a
\* callback subscribed.
C11_Witness ==
  /\ middleware = Custom("block")
  /\ Idle
  /\ log = <<[ev |-> "exit", mw |-> "block"]>>
  /\ Members(subscribers) # {}

\* A setState has returned under the middleware that delegates two times: the
\* raw setter has run two times.
C11_WitnessTwice ==
  /\ middleware = Custom("twice")
  /\ Idle
  /\ Len(SelectSeq(log, LAMBDA e : e.ev = "set")) = 2

\* C12: whenever a useStore listener calls the predicate, the first argument is
\* the previous selection (the one the listener holds) and the second argument
\* is the newly computed selection.
C12_PrevThenNext ==
  last.op = "listener" => last.args = <<last.closed, last.newValue>>

\* C13: useStore, useGetState and useSubscribe called by a component with no
\* enclosing Provider of the store throw, and the error message names the hook
\* that was called; under a Provider they get the contextValue of that Provider.
C13_ThrowsNamingHook ==
  last.op = "hook" =>
    IF last.under = NoProvider
    THEN /\ last.out.threw
         /\ last.out.error.message[1] = last.hook
    ELSE /\ ~last.out.threw
         /\ last.out.value.inst = last.under

\* useGetState has been called outside every Provider, while a Provider of the
\* store is mounted elsewhere, and has thrown.
C13_Witness ==
  /\ last.op = "hook"
  /\ last.hook = "useGetState"
  /\ last.under = NoProvider
  /\ last.out.threw
  /\ \E i \in Inst : Mounted(i)

\* C15: when the state is a primitive or an array and setState is given a
\* value v that is not a function, getState() returns v afterwards: a number
\* equal to v, or an array with the elements of v.
C15_FullReplacement ==
  (last.op = "set" /\ last.prev[last.inst].t \in {"number", "array"}) =>
    LET now == getState(last.inst) IN
    /\ now.t = last.input.t
    /\ last.input.t = "number" => now.v = last.input.v
    /\ last.input.t = "array" => now.e = last.input.e

\* C14: no setState call of the builder-or-value store throws, whatever state
\* the store holds (the action functions of the builder among its fields or
\* not) and whatever object, function or number it is given; and a number
\* given to it becomes the state.
C14_NeverThrows ==
  /\ last.op # "threw"
  /\ (last.op = "set" /\ last.input.t = "number") => getState(last.inst) = last.input

\* C16: any two stores createStore has returned have different identifiers.
C16_UniqueIds ==
  \A k, l \in 1..Len(stores) : k # l => stores[k].id # stores[l].id

\* C17: useSelector and useDispatch given a store bind to the contextValue of
\* that store's nearest enclosing Provider; given no store they bind to the
\* contextValue of the nearest enclosing Provider, whatever its store.
C17_Resolution ==
  last.op = "resolve" =>
    IF last.store # 0
    THEN (\E n \in 1..Len(last.path) : last.path[n] = last.store) =>
           /\ ~last.out.threw
           /\ last.out.value.store = last.store
    ELSE last.path # <<>> =>
           /\ ~last.out.threw
           /\ last.out.value.store = last.path[1]

\* The registerContext calls that added an entry: the first call of each id.
FirstCalls == {n \in 1..Len(calls) : \A m \in 1..(n - 1) : calls[m].id # calls[n].id}

\* C18: after any sequence of registerContext calls, contextsMap holds the
\* ids the calls were made for, and for each of them the context of the first
\* call made for it, whatever context later calls for that id were given.
C18_FirstRegistrationKept ==
  /\ DOMAIN storeManager.contextsMap = {calls[n].id : n \in 1..Len(calls)}
  /\ \A n \in FirstCalls : storeManager.contextsMap[calls[n].id] = calls[n].context

\* The same id has been registered two times with different contexts.
C18_Witness ==
  \E n \in FirstCalls : \E m \in (n + 1)..Len(calls) :
    /\ calls[m].id = calls[n].id
    /\ calls[m].context # calls[n].context
    /\ storeManager.contextsMap[calls[n].id] = calls[n].context

\* C19: lastContext is undefined while no context is registered, and otherwise
\* the context of the latest registerContext call that added an entry.
C19_LastContext ==
  IF FirstCalls = {}
  THEN lastContext(storeManager) = Undefined
  ELSE LET n == CHOOSE k \in FirstCalls : \A j \in FirstCalls : j <= k
       IN lastContext(storeManager) = Context(calls[n].context)

\* What the code does instead: lastContext is null while no context is
\* registered, and otherwise as stated.
C19_LastContextOrNull ==
  IF FirstCalls = {}
  THEN lastContext(storeManager) = Null
  ELSE LET n == CHOOSE k \in FirstCalls : \A j \in FirstCalls : j <= k
       IN lastContext(storeManager) = Context(calls[n].context)

\* C20: every run of the setter with an object or a function installs a state
\* object whose identity differs from that of the previous state object (which
\* is therefore left as it was), also when no field's value changes.
C20_NewObject ==
  (last.op = "set" /\ TypeOf(last.input) \in {"object", "function"}) =>
    /\ getState(last.inst).t = "object"
    /\ ~StrictEq(getState(last.inst), last.prev[last.inst])

\* An update that changed no field's value has installed a new object.
C20_Witness ==
  /\ last.op = "set"
  /\ TypeOf(last.input) = "object"
  /\ getState(last.inst).f = last.prev[last.inst].f
  /\ getState(last.inst).id # last.prev[last.inst].id

\* C21: when a subscriber throws during a notification, the exception reaches
\* the caller of setState (no call of the store is left in progress, so the
\* subscribers not yet invoked are not invoked by that notification), and the
\* state is the new state object that setState wrote, not the previous one.
C21_ThrowPropagates ==
  last.op = "throw" =>
    /\ Idle
    /\ ~StrictEq(getState(last.inst), last.prev)
    /\ getState(last.inst).f.count = 1

\* A subscriber has thrown while another, registered when the notification
\* began and still registered, had not been invoked.
C21_Witness ==
  /\ last.op = "throw"
  /\ Idle
  /\ \E cb \in last.before :
       /\ cb \notin Range(last.called)
       /\ cb \in Members(subscribers)

\* C22: whenever the wrapper subscribed by the function useSubscribe returned
\* invokes its callback, the setState that is notifying changed the
\* selection (the predicate reports the new selection not equal to the
\* selection of the state before that setState), the callback is given the
\* selection of the current state, and no render of the component is asked for.
C22_OnlyOnChange ==
  /\ (last.op = "wrapper" /\ last.invoked) =>
       /\ ~predicateFn(hooks[last.c].predicate, last.given, last.was)
       /\ last.given = selectorFn(hooks[last.c].selector,
                                  getState(hooks[last.c].inst))
  /\ \A c \in Cons :
       (hooks[c].mounted /\ hooks[c].hook = "useSubscribe") =>
         hooks[c].pending = NoUpdate

\* C23: subscriber lifecycle.  After any sequence of mounts, renders, effects
\* and unmounts of useStore consumers, the subscriber set holds, for each
\* mounted useStore call whose effect has run, exactly one listener, the one
\* the last run of its effect subscribed, and nothing else: no listener of an
\* unmounted consumer, of a consumer whose effect has not run, or of an
\* earlier run of an effect.
C23_OneListenerEach ==
  /\ \A c \in Cons :
       ListenersOf(c) =
         IF hooks[c].mounted /\ hooks[c].closure # NoEffect
         THEN {hooks[c].closure} ELSE {}
  /\ NoDuplicates(SelectSeq(subscribers, LAMBDA cb : cb # Empty))
  /\ \A cb \in Members(subscribers) : cb.kind = "listener"

\* A consumer whose effect had run has just been unmounted, while another
\* consumer is subscribed with the listener of a later run of its effect, made
\* after its selection had changed to 1.
C23_Witness ==
  /\ last.op = "unmount"
  /\ last.closure # NoEffect
  /\ \E d \in Cons :
       /\ hooks[d].mounted
       /\ hooks[d].closure = Listener(d, Num(1))
       /\ ~hooks[d].effectDue

\* C24: the first render of a Provider instance sets its state cell from its
\* value prop when it is given one and from the stateBuilder otherwise, and
\* leaves the cells of the other instances as they were; a later render of
\* the instance, with whatever value prop, leaves every state cell and the
\* subscriber set as they were; and the state a consumer reads is that of the
\* nearest Provider around it, so consumers outside a nested Provider do not
\* see the value that Provider was given.
C24_InitialisedOnce ==
  /\ last.op = "mount" =>
       /\ last.prev[last.inst] = Unmounted
       /\ getState(last.inst).f =
            IF last.value = Undefined THEN stateBuilder ELSE last.value.f
       /\ \A j \in Inst \ {last.inst} : getState(j) = last.prev[j]
  /\ last.op = "render" =>
       /\ stateRef = last.prev
       /\ subscribers = last.subs
  /\ (last.op = "hook" /\ last.under # NoProvider) =>
       /\ ~last.out.threw
       /\ getState(last.out.value.inst) = stateRef[last.under]

\* A Provider whose state setState has changed renders again with a value
\* prop that differs from its state, while a callback is subscribed and the
\* other instance holds another state.
C24_Witness ==
  /\ last.op = "render"
  /\ last.value # Undefined
  /\ last.value.f.step # getState(last.inst).f.step
  /\ getState(last.inst).f.count = 1
  /\ Members(subscribers) # {}
  /\ \E j \in Inst \ {last.inst} :
       Mounted(j) /\ getState(j).f # getState(last.inst).f

\* C25: no batching or coalescing.  Every setState call computes its state
\* while no notification is in progress and begins a notification round of
\* its own over all the subscribers there are, also when it leaves the value
\* of every field as it was; and a round ends only after it has called every
\* one of them.  Hence k consecutive calls make k rounds, each completed
\* before the next call.
C25_Sets == stateRef' # stateRef /\ last'.op = "set"

C25_NoBatching ==
  /\ [][C25_Sets =>
          /\ Idle
          /\ Len(stack') = 1
          /\ stack'[1].k = "forEach"
          /\ stack'[1].idx = 0
          /\ stack'[1].called = <<>>
          /\ stack'[1].before = Members(subscribers)]_vars
  /\ [][(~Idle /\ Idle') =>
          /\ last'.op = "forEach"
          /\ last'.before = Range(last'.called)
          /\ NoDuplicates(last'.called)]_vars
  /\ [](last.op = "set" => ~Idle)

\* The round of a setState call that left count at 1, where an earlier call
\* had put it, has ended after calling the subscribed callback.
C25_Witness ==
  /\ last.op = "forEach"
  /\ Idle
  /\ last.prev.f.count = 1
  /\ getState(last.inst).f = last.prev.f
  /\ last.called = <<Plain(1)>>

\* C26: shallowEqual returns the one-level comparison.  Two key-maps: true
\* exactly when they have the same keys and the values of every key are ===.
\* Two arrays: true exactly when they have the same length and the elements
\* at every index are ===.  An array and anything that is not an array: false.
C26_OneLevel ==
  last.op = "shallowEqual" =>
    LET a == last.a
        b == last.b
    IN /\ (a.t = "object" /\ b.t = "object") =>
            /\ ~last.out.threw
            /\ last.out.value <=>
                 /\ DOMAIN a.f = DOMAIN b.f
                 /\ \A key \in DOMAIN a.f : StrictEq(a.f[key], b.f[key])
       /\ (a.t = "array" /\ b.t = "array") =>
            /\ ~last.out.threw
            /\ last.out.value <=>
                 /\ Len(a.e) = Len(b.e)
                 /\ \A n \in 1..Len(a.e) : StrictEq(a.e[n], b.e[n])
       /\ ((a.t = "array") # (b.t = "array")) =>
            /\ ~last.out.threw
            /\ ~last.out.value

\* C27: reflexivity.  shallowEqual(x, x) returns true for every primitive,
\* null, undefined, array and key-map x.
C27_Reflexive ==
  (last.op = "shallowEqual" /\ last.a = last.b) =>
    /\ ~last.out.threw
    /\ last.out.value

\* C28: useSelector and useDispatch given a store, called by a component that
\* no Provider of that store encloses (whether or not a context is registered
\* for the store), throw an error whose message names the hook that was
\* called.
C28_ThrowsNamingHook ==
  (last.op = "resolve" /\ last.store # 0
     /\ \A n \in 1..Len(last.path) : last.path[n] # last.store) =>
    /\ last.out.threw
    /\ last.out.error.message[1] = last.hook

\* C29: for every store whose Provider has rendered, contextsMap[store.id]
\* is the Context made by that store's own createStore call; hence a hook
\* given store S that returns binds to the contextValue of a Provider of S.
C29_OwnContext ==
  /\ \A k \in 1..Len(stores) :
       stores[k].rendered =>
         /\ stores[k].id \in DOMAIN storeManager.contextsMap
         /\ storeManager.contextsMap[stores[k].id] = k
  /\ (last.op = "resolve" /\ last.store # 0 /\ ~last.out.threw) =>
       last.out.value.store = last.store

\* C30: eventual consistency of useStore.  Whenever no setState is in
\* progress and every mounted useStore call has run the renders that were
\* asked for and the effects that were due, each useStore call with the
\* default predicate returns the selection of the current state of its
\* Provider.
C30_EventuallyConsistent ==
  (/\ Idle
   /\ \A c \in Cons :
        hooks[c].mounted => (hooks[c].pending = NoUpdate /\ ~hooks[c].effectDue)) =>
    \A c \in Cons :
      (hooks[c].mounted /\ hooks[c].predicate = Undefined) =>
        StrictEq(hooks[c].selectedState,
                 selectorFn(hooks[c].selector, getState(hooks[c].inst)))

\* C31: under compose(m1, ..., mn) whose middlewares each call the setter they
\* were given one time, a setState call that has returned has run the raw
\* setter exactly one time.
C31_RawSetterOnce ==
  (/\ middleware.kind = "composed"
   /\ \A n \in 1..Len(middleware.fns) : Delegations(middleware.fns[n].name) = 1
   /\ Idle
   /\ log # <<>>) =>
    Len(SelectSeq(log, LAMBDA e : e.ev = "set")) = 1

\* C32: every setState call terminates.  When no subscriber calls setState,
\* a notification that has begun ends, whatever subscribe and unsubscribe
\* calls the subscribers make while they are notified.
C32_Terminates == (~Idle) ~> Idle

\* C33: re-entrant updates.  When the outermost setState returns, subscribers
\* having called setState while they were notified and nothing having been
\* subscribed or unsubscribed meanwhile, every subscriber has been called
\* after the last write of the state, and the state each subscriber read
\* when it was last called is the state getState() returns.
C33_LastSet == CHOOSE n \in 1..Len(log) :
                 /\ log[n].ev = "set"
                 /\ \A m \in (n + 1)..Len(log) : log[m].ev # "set"

C33_AllSawLastWrite ==
  (Idle /\ last.op = "forEach") =>
    \A cb \in Members(subscribers) :
      LET calls_ == {n \in 1..Len(log) : log[n].ev = "callback" /\ log[n].cb = cb}
      IN /\ \E n \in calls_ : n > C33_LastSet
         /\ \A n \in calls_ :
              (\A m \in calls_ : m <= n) => log[n].saw = getState(last.inst)

\* An outermost setState has returned, during which the second of two
\* subscribers called setState, and that call changed the state again.
C33_Witness ==
  /\ Idle
  /\ last.op = "forEach"
  /\ Len(subscribers) = 2
  /\ Len(SelectSeq(log, LAMBDA e : e.ev = "set")) >= 2
  /\ log[1].ev = "set"
  /\ log[2].ev = "callback"
  /\ log[3].ev = "callback"
  /\ log[3].cb = subscribers[2]
  /\ log[4].ev = "set"
  /\ log[3].saw.f # getState(last.inst).f

\* C34 as claimed: when a callback has been passed to subscribe two times,
\* calling one of the two unsubscribe functions leaves the callback
\* subscribed as long as the other has not been called.
C34_IndependentPerCall ==
  (last.op = "unsubscribe" /\ ~last.again /\ unsubs[last.cb].fresh > 0) =>
    last.cb \in Members(subscribers)

\* C34 as amended: a subscription is per callback, not per subscribe call.
\* The set holds a callback once however many times it was passed to
\* subscribe; any call of any of its unsubscribe functions leaves the set
\* without that callback and with every other one; and a notification calls
\* exactly the callbacks that are in the set, so the callback is not notified
\* by the next setState although an unsubscribe function of it is uncalled.
C34_OnePerCallback ==
  /\ NoDuplicates(SelectSeq(subscribers, LAMBDA cb : cb # Empty))
  /\ last.op = "unsubscribe" =>
       /\ last.cb \notin Members(subscribers)
       /\ Members(subscribers) = last.before \ {last.cb}
  /\ (last.op = "forEach" /\ Idle) =>
       /\ Range(last.called) = Members(subscribers)
       /\ \A cb \in PlainCbs \ Members(subscribers) : cb \notin Range(last.called)

\* A callback was passed to subscribe two times, one of its unsubscribe
\* functions has been called and the other has not, and the setState that
\* followed has notified the other callback and not this one.
C34_Witness ==
  /\ last.op = "forEach"
  /\ Idle
  /\ \E cb \in PlainCbs :
       /\ unsubs[cb].fresh = 1
       /\ unsubs[cb].used
       /\ cb \notin Members(subscribers)
       /\ cb \notin Range(last.called)
  /\ last.called # <<>>

\* C35: when two callbacks are registered through the function one
\* useSubscribe call returned, a setState that changes the selected value
\* invokes each of them, with the new selected value.
C35_BothInvoked ==
  (/\ last.op = "wrapper"
   /\ {Wrapper(last.c, 1), Wrapper(last.c, 2)} \subseteq Members(subscribers)
   /\ ~predicateFn(hooks[last.c].predicate, last.given, last.was)) =>
    /\ last.invoked
    /\ last.given = selectorFn(hooks[last.c].selector, getState(hooks[last.c].inst))

\* C36: useStore returns exactly what the selector returns for the current
\* state when a selector is given, null and undefined included, and the whole
\* state only when no selector is given.
C36_ExactlySelected ==
  last.op = "useStore" =>
    last.out = IF last.selector = Undefined
               THEN getState(last.inst)
               ELSE CallSelector(last.selector.name, getState(last.inst))

\* C37: shallowEqual is symmetric: shallowEqual(a, b) and shallowEqual(b, a)
\* have the same outcome for all values a and b.
C37_Symmetric ==
  last.op = "shallowEqual" => last.out = shallowEqual(last.b, last.a)

\* C38: shallowEqual is total: it returns a boolean for every pair of
\* arguments, never throwing, and it returns false when one argument is a
\* non-null object and the other is a primitive.
C38_Total ==
  last.op = "shallowEqual" =>
    /\ last.out \in {Returns(TRUE), Returns(FALSE)}
    /\ (TypeOf(last.a) = "object" /\ last.a # Null /\ last.b \in Primitives) =>
         last.out = Returns(FALSE)
    /\ (TypeOf(last.b) = "object" /\ last.b # Null /\ last.a \in Primitives) =>
         last.out = Returns(FALSE)

====
